---- MODULE Spec2Model ----
(***************************************************************************)
(* Model of backend/index.js: an express server over a PostgreSQL store    *)
(* with two tables, dashboard and assets, and the POST /invest handler.    *)
(*                                                                         *)
(* Money is counted in cents (DECIMAL(15,2) columns), apy in hundredths of *)
(* a percent (DECIMAL(5,2)), tokensToBuy in halves so that a non-integer   *)
(* request value (1.5) can be told from an integer one.                    *)
(*                                                                         *)
(* One action is one store operation as the server executes it, together   *)
(* with the part of the handler that runs when its await resumes, up to    *)
(* the next await.  The store is PostgreSQL at its default isolation level *)
(* (READ COMMITTED, the handler sends a bare BEGIN): a SELECT reads the    *)
(* committed rows, an UPDATE waits for the row lock, then works on the     *)
(* latest committed version of the row and keeps the lock until the        *)
(* transaction ends, COMMIT publishes the writes of the transaction at     *)
(* once, ROLLBACK drops them.                                              *)
(***************************************************************************)
EXTENDS Integers, Sequences, FiniteSets, TLC

\* Number of POST /invest requests in flight in one run.
MaxReqs == 2
\* Stock of asset 1 in the low-stock store the model also starts from.
LowStock == 10

Reqs == 1..MaxReqs

\* number of initDB() runs (server starts) against one store
MaxBoots == 2

Boots == 1..MaxBoots

(***************************************************************************)
(* Seed data (seedData).                                                   *)
(***************************************************************************)
SeedWalletBalance == 1500000
SeedTotalInvestment == 520000
SeedMonthlyYield == 43550

SeedDashboard ==
    [id |-> 1, wallet_balance |-> SeedWalletBalance,
     total_investment |-> SeedTotalInvestment, monthly_yield |-> SeedMonthlyYield]

dummyAssets ==
    << [id |-> 1, name |-> "Skyline Apartments", location |-> "New York, NY",
        apy |-> 850, price_per_token |-> 5000, tokens_available |-> 1000],
       [id |-> 2, name |-> "Ocean View Villa", location |-> "Miami, FL",
        apy |-> 1200, price_per_token |-> 15000, tokens_available |-> 500],
       [id |-> 3, name |-> "Mountain Retreat", location |-> "Aspen, CO",
        apy |-> 1020, price_per_token |-> 7500, tokens_available |-> 800],
       [id |-> 4, name |-> "Downtown Office", location |-> "Chicago, IL",
        apy |-> 980, price_per_token |-> 12000, tokens_available |-> 1200] >>

(***************************************************************************)
(* Request bodies.  assetId 0 stands for an assetId that is missing (or    *)
(* 0 or null: all are falsy); 9 is an id no asset row has.                 *)
(***************************************************************************)
Undefined == [kind |-> "undefined", twice |-> 0]
Number(twice) == [kind |-> "number", twice |-> twice]
NonNumeric == [kind |-> "string", twice |-> 0]

Body(assetId, tokensToBuy) == [assetId |-> assetId, tokensToBuy |-> tokensToBuy]

\* The request bodies the model sends: tokensToBuy undefined, "abc", -1, 0,
\* 1.5, 6, 10, 60 and 400, on a missing, an existing and an unknown assetId.
\* Two purchases of 60 tokens of asset 2 cost 18000.00, more than the seeded
\* wallet holds; 400 tokens of asset 1 cost 20000.00.
Bodies ==
    { Body(0, Number(12)), Body(1, Undefined), Body(1, Number(0)), Body(1, Number(-2)),
      Body(9, Number(12)), Body(1, Number(3)), Body(1, NonNumeric),
      Body(1, Number(12)), Body(1, Number(20)), Body(2, Number(120)),
      Body(1, Number(800)) }

VARIABLES
    tblAssets,      \* committed rows of table assets, row i has id i
    tblDashboard,   \* committed rows of table dashboard, row i has id i
    txLocks,        \* txLocks[r]: the rows the transaction of r holds locked
    txAssets,       \* txAssets[r]: uncommitted writes of r to assets
    txDashboard,    \* txDashboard[r]: uncommitted writes of r to dashboard
    inTx,           \* inTx[r]: the connection of r is inside BEGIN .. COMMIT
    pc,             \* pc[r]: the await the handler of r is suspended at
    body,           \* body[r]: req.body
    client,         \* client[r]: r holds a pool connection
    asset,          \* asset[r]: assetRes.rows
    totalCost,      \* totalCost[r]
    dashboard,      \* dashboard[r]: dashRes.rows (at most the first)
    data,           \* data[r]: newWalletBalance, newTotalInvestment, ...
    err,            \* err[r]: message of the error the catch block caught
    res,            \* res[r]: the HTTP response sent, status 0 when none
    issued,         \* issued[r]: r has asked the pool or the store for something
    released,       \* released[r]: number of client.release() calls of r
    applied,        \* applied[r]: which writes of r are in the committed rows
    start,          \* which rows the tables held when the server started serving
    schema,         \* what of database 'onblock' and its two tables exists
    initDB          \* initDB[b]: position and locals of run b of initDB()

vars ==
    << tblAssets, tblDashboard, txLocks, txAssets, txDashboard, inTx, pc, body,
       client, asset, totalCost, dashboard, data, err, res, issued, released, applied,
       start, schema, initDB >>

storeVars == << tblAssets, tblDashboard >>
txVars == << txLocks, txAssets, txDashboard, inTx >>
localVars == << asset, totalCost, dashboard, data >>
bootVars == << schema, initDB >>
investVars ==
    << txLocks, txAssets, txDashboard, inTx, pc, body, client, asset, totalCost,
       dashboard, data, err, res, issued, released, applied >>

(***************************************************************************)
(* Response texts and status codes.                                        *)
(***************************************************************************)
ValidationMsg == "Valid assetId and tokensToBuy are required"
NotFoundMsg == "Asset not found"
NotEnoughTokensMsg == "Not enough tokens available in this asset"
InsufficientBalanceMsg == "Insufficient wallet balance to complete transaction"
\* dashRes.rows[0] is undefined and dashboard.wallet_balance throws
TypeErrorMsg == "Cannot read properties of undefined"
\* the message of an error the store raised
StoreErrorMsg == "store error"
BusinessMsgs == {NotFoundMsg, NotEnoughTokensMsg, InsufficientBalanceMsg}

ValidationStatus == 400
CatchStatus == 400
SuccessStatus == 200

NoData ==
    [spent |-> 0, remainingBalance |-> 0, newTotalInvestment |-> 0,
     newMonthlyYield |-> [cents |-> 0, frac |-> 0]]
NoResponse == [status |-> 0, error |-> "", data |-> NoData]
NoCost == [nan |-> FALSE, cents |-> 0]

(***************************************************************************)
(* The handler's expressions.                                              *)
(***************************************************************************)
\* !v
Falsy(v) == v.kind = "undefined" \/ (v.kind = "number" /\ v.twice = 0)

\* NotPositive with the tokensToBuy <= 0 test left out
NotPositive_Skipped(v) == FALSE

\* v <= 0: false for undefined and for a non-numeric string (NaN <= 0)
NotPositive(v) == v.kind = "number" /\ v.twice <= 0

\* !assetId || !tokensToBuy || tokensToBuy <= 0
Invalid(assetId, tokensToBuy) ==
    assetId = 0 \/ Falsy(tokensToBuy) \/ NotPositive(tokensToBuy)

\* NotEnoughTokens with the availability check left out
NotEnoughTokens_Skipped(tokens_available, tokensToBuy) == FALSE

\* NotEnoughTokens with the operands of < exchanged
NotEnoughTokens_Reversed(tokens_available, tokensToBuy) ==
    tokensToBuy.kind = "number" /\ tokensToBuy.twice < 2 * tokens_available

\* asset.tokens_available < tokensToBuy: false when tokensToBuy is NaN
NotEnoughTokens(tokens_available, tokensToBuy) ==
    tokensToBuy.kind = "number" /\ 2 * tokens_available < tokensToBuy.twice

\* asset.price_per_token * tokensToBuy: NaN for a non-numeric tokensToBuy
TotalCost(price_per_token, tokensToBuy) ==
    IF tokensToBuy.kind = "number"
    THEN [nan |-> FALSE, cents |-> (price_per_token * tokensToBuy.twice) \div 2]
    ELSE [nan |-> TRUE, cents |-> 0]

\* InsufficientBalance with the wallet check left out
InsufficientBalance_Skipped(wallet_balance, cost) == FALSE

\* parseFloat(dashboard.wallet_balance) < totalCost: false when totalCost is NaN
InsufficientBalance(wallet_balance, cost) ==
    ~cost.nan /\ wallet_balance < cost.cents

\* the INTEGER column takes the parameter $1 only when it is an integer
IntegerParam(tokensToBuy) ==
    tokensToBuy.kind = "number" /\ tokensToBuy.twice % 2 = 0

\* NewTotalInvestment when the cost is not added
NewTotalInvestment_Kept(total_investment, cost) == total_investment
\* parseFloat(dashboard.total_investment) + totalCost
NewTotalInvestment(total_investment, cost) == total_investment + cost.cents
\* NewWalletBalance with the cost added instead of subtracted
NewWalletBalance_Added(wallet_balance, cost) == wallet_balance + cost.cents
NewWalletBalance(wallet_balance, cost) == wallet_balance - cost.cents

\* (totalCost * (apy / 100)) / 12, in cents, as a numerator over YieldDen:
\* apy is in hundredths of a percent, so the divisor is 100 * 100 * 12
YieldDen == 120000
\* AddedMonthlyYield with the apy cut to whole percents (parseInt for parseFloat)
AddedMonthlyYield_ParseInt(cost, apy) == cost.cents * ((apy \div 100) * 100)
AddedMonthlyYield(cost, apy) == cost.cents * apy

\* parseFloat(dashboard.monthly_yield) + addedMonthlyYield, not rounded
NewMonthlyYield(monthly_yield, added) == [cents |-> monthly_yield, frac |-> added]

\* what a DECIMAL(15,2) column stores of a value: rounded to the cent
Decimal2(y) == y.cents + (y.frac + YieldDen \div 2) \div YieldDen

(***************************************************************************)
(* The store.                                                              *)
(***************************************************************************)
\* SELECT * FROM assets WHERE id = $1
SelectAssetById(id) ==
    IF id \in DOMAIN tblAssets THEN << tblAssets[id] >> ELSE << >>

\* the rows SELECT * FROM dashboard LIMIT 1 may return
SelectDashboardLimit1 ==
    IF tblDashboard = << >> THEN { << >> }
    ELSE { << tblDashboard[i] >> : i \in DOMAIN tblDashboard }

LockedByOther(r, row) == \E o \in Reqs \ {r} : row \in txLocks[o]

\* TokensLeft when the UPDATE sets the column to its parameter
TokensLeft_Overwritten(tokens_available, tokensToBuy) == tokensToBuy.twice \div 2

\* SET tokens_available = tokens_available - $1, for an integer $1
TokensLeft(tokens_available, tokensToBuy) ==
    tokens_available - (tokensToBuy.twice \div 2)

\* table tbl with the writes ws (rows, by id) in place
WithWrites(tbl, ws) ==
    [i \in DOMAIN tbl |->
        IF \E k \in DOMAIN ws : ws[k].id = i
        THEN ws[CHOOSE k \in DOMAIN ws : ws[k].id = i]
        ELSE tbl[i]]

\* BeginStmt when the handler opens no transaction
BeginStmt_Omitted == "SELECT 1"

\* the statement the handler opens its transaction with
BeginStmt == "BEGIN"

(***************************************************************************)
(* Init: the server is up, the pool is idle, the tables hold the seed rows *)
(* or rows left by earlier runs (seedData leaves a non-empty table alone). *)
(***************************************************************************)
Starts == {"seeded", "low stock", "no dashboard"}

tblAssets0 ==
    IF start = "low stock"
    THEN [dummyAssets EXCEPT ![1].tokens_available = LowStock]
    ELSE dummyAssets

tblDashboard0 == IF start = "no dashboard" THEN << >> ELSE << SeedDashboard >>

\* no request has arrived: every handler invocation is still to come
NoRequests ==
    /\ txLocks = [r \in Reqs |-> {}]
    /\ txAssets = [r \in Reqs |-> << >>]
    /\ txDashboard = [r \in Reqs |-> << >>]
    /\ inTx = [r \in Reqs |-> FALSE]
    /\ pc = [r \in Reqs |-> "idle"]
    /\ body = [r \in Reqs |-> Body(0, Undefined)]
    /\ client = [r \in Reqs |-> FALSE]
    /\ asset = [r \in Reqs |-> << >>]
    /\ totalCost = [r \in Reqs |-> NoCost]
    /\ dashboard = [r \in Reqs |-> << >>]
    /\ data = [r \in Reqs |-> NoData]
    /\ err = [r \in Reqs |-> ""]
    /\ res = [r \in Reqs |-> NoResponse]
    /\ issued = [r \in Reqs |-> FALSE]
    /\ released = [r \in Reqs |-> 0]
    /\ applied = [r \in Reqs |-> [assets |-> FALSE, dashboard |-> FALSE]]

\* no result of SELECT COUNT(*) is held
NoCount == -1

\* a run of initDB(): pc is the await it is suspended at, i the index in
\* dummyAssets of the row the loop inserts next, dashboardCheck and assetsCheck
\* the counts seedData read, failed whether a store operation of the run threw,
\* concurrent whether another run was under way when this one started
Run(at) ==
    [pc |-> at, i |-> 0, dashboardCheck |-> NoCount, assetsCheck |-> NoCount,
     failed |-> FALSE, concurrent |-> FALSE]

Init ==
    /\ start \in Starts
    /\ tblAssets = tblAssets0
    /\ tblDashboard = tblDashboard0
    /\ schema = "tables"
    /\ initDB = [b \in Boots |-> Run("done")]
    /\ NoRequests

(***************************************************************************)
(* POST /invest.                                                           *)
(***************************************************************************)
\* The try block is left (to the catch block or to the end of the handler): its
\* constants asset, totalCost, dashboard and the new values go out of scope.
LeaveTry(r) ==
    /\ asset' = [asset EXCEPT ![r] = << >>]
    /\ totalCost' = [totalCost EXCEPT ![r] = NoCost]
    /\ dashboard' = [dashboard EXCEPT ![r] = << >>]
    /\ data' = [data EXCEPT ![r] = NoData]

\* The handler is entered: destructure req.body, validate, and for a valid body
\* take a client from the pool (the pool holds more clients than there are
\* requests, so pool.connect() does not wait) and send BEGIN.
\* Requests are numbered in the order they arrive.
Receive(r) ==
    /\ pc[r] = "idle"
    /\ \A q \in Reqs : q < r => pc[q] # "idle"
    /\ \E b \in Bodies :
        /\ body' = [body EXCEPT ![r] = b]
        /\ IF Invalid(b.assetId, b.tokensToBuy)
           THEN /\ res' = [res EXCEPT ![r] =
                        [status |-> ValidationStatus, error |-> ValidationMsg, data |-> NoData]]
                /\ pc' = [pc EXCEPT ![r] = "done"]
                /\ UNCHANGED << issued, client >>
           ELSE /\ issued' = [issued EXCEPT ![r] = TRUE]
                /\ client' = [client EXCEPT ![r] = TRUE]
                /\ pc' = [pc EXCEPT ![r] = "BEGIN"]
                /\ UNCHANGED res
    /\ UNCHANGED << start, bootVars, storeVars, txVars, localVars, err, released, applied >>

\* The handler is entered with a valid body and pool.connect() rejects: the
\* await is outside the try block, so the handler's promise rejects with no
\* response sent and nothing to release.
ConnectFails(r) ==
    /\ pc[r] = "idle"
    /\ \A q \in Reqs : q < r => pc[q] # "idle"
    /\ \E b \in Bodies :
        /\ ~Invalid(b.assetId, b.tokensToBuy)
        /\ body' = [body EXCEPT ![r] = b]
    /\ issued' = [issued EXCEPT ![r] = TRUE]
    /\ err' = [err EXCEPT ![r] = StoreErrorMsg]
    /\ pc' = [pc EXCEPT ![r] = "rejected"]
    /\ UNCHANGED << start, bootVars, storeVars, txVars, localVars, client, res, released, applied >>

\* client.query('BEGIN')
Begin(r) ==
    /\ pc[r] = "BEGIN"
    /\ inTx' = [inTx EXCEPT ![r] = (BeginStmt = "BEGIN")]
    /\ pc' = [pc EXCEPT ![r] = "SELECT assets"]
    /\ UNCHANGED << start, bootVars, issued, released, storeVars, txLocks, txAssets, txDashboard, localVars, body, client, err, res, applied >>

\* throw new Error(msg), or an await that throws: control goes to the catch
\* block, which sends ROLLBACK.
Throw(r, msg) ==
    /\ err' = [err EXCEPT ![r] = msg]
    /\ pc' = [pc EXCEPT ![r] = "ROLLBACK"]
    /\ LeaveTry(r)

\* 1. Fetch asset details, 2. check token availability, compute totalCost.
SelectAssets(r) ==
    /\ pc[r] = "SELECT assets"
    /\ LET rows == SelectAssetById(body[r].assetId) IN
        IF Len(rows) = 0
        THEN Throw(r, NotFoundMsg)
        ELSE IF NotEnoughTokens(rows[1].tokens_available, body[r].tokensToBuy)
        THEN Throw(r, NotEnoughTokensMsg)
        ELSE /\ asset' = [asset EXCEPT ![r] = rows]
             /\ totalCost' = [totalCost EXCEPT ![r] =
                     TotalCost(rows[1].price_per_token, body[r].tokensToBuy)]
             /\ pc' = [pc EXCEPT ![r] = "SELECT dashboard"]
             /\ UNCHANGED << dashboard, data, err >>
    /\ UNCHANGED << start, bootVars, storeVars, txVars, body, client, res, issued, released,
                    applied >>

\* 3. Check wallet balance from dashboard.
SelectDashboard(r) ==
    /\ pc[r] = "SELECT dashboard"
    /\ \E rows \in SelectDashboardLimit1 :
        IF Len(rows) = 0
        THEN Throw(r, TypeErrorMsg)
        ELSE IF InsufficientBalance(rows[1].wallet_balance, totalCost[r])
        THEN Throw(r, InsufficientBalanceMsg)
        ELSE /\ dashboard' = [dashboard EXCEPT ![r] = rows]
             /\ pc' = [pc EXCEPT ![r] = "UPDATE assets"]
             /\ UNCHANGED << asset, totalCost, data, err >>
    /\ UNCHANGED << start, bootVars, storeVars, txVars, body, client, res, issued, released,
                    applied >>

\* 4. Update Assets table (decrease availability); when the await resumes,
\* 5. compute the new dashboard values.  Outside a transaction block the
\* statement commits by itself.
UpdateAssets(r) ==
    /\ pc[r] = "UPDATE assets"
    /\ IF ~IntegerParam(body[r].tokensToBuy)
       THEN \* invalid input syntax for type integer
            /\ Throw(r, StoreErrorMsg)
            /\ UNCHANGED << storeVars, txVars, applied >>
       ELSE LET id == body[r].assetId
                row == [tblAssets[id] EXCEPT
                            !.tokens_available = TokensLeft(@, body[r].tokensToBuy)]
                cost == totalCost[r]
                dash == dashboard[r][1]
                added == AddedMonthlyYield(cost, asset[r][1].apy)
            IN  /\ ~LockedByOther(r, << "assets", id >>)
                /\ IF inTx[r]
                   THEN /\ txLocks' = [txLocks EXCEPT ![r] = @ \cup {<< "assets", id >>}]
                        /\ txAssets' = [txAssets EXCEPT ![r] = Append(@, row)]
                        /\ UNCHANGED << tblAssets, applied >>
                   ELSE /\ tblAssets' = WithWrites(tblAssets, << row >>)
                        /\ applied' = [applied EXCEPT ![r].assets = TRUE]
                        /\ UNCHANGED << txLocks, txAssets >>
                /\ data' = [data EXCEPT ![r] =
                        [spent |-> cost.cents,
                         remainingBalance |-> NewWalletBalance(dash.wallet_balance, cost),
                         newTotalInvestment |-> NewTotalInvestment(dash.total_investment, cost),
                         newMonthlyYield |-> NewMonthlyYield(dash.monthly_yield, added)]]
                /\ pc' = [pc EXCEPT ![r] = "UPDATE dashboard"]
                /\ UNCHANGED << tblDashboard, txDashboard, inTx, err, asset, totalCost,
                                dashboard >>
    /\ UNCHANGED << start, bootVars, body, client, res, issued, released >>

\* UPDATE dashboard SET wallet_balance = $1, total_investment = $2,
\* monthly_yield = $3 WHERE id = $4
UpdateDashboard(r) ==
    /\ pc[r] = "UPDATE dashboard"
    /\ LET id == dashboard[r][1].id
           row == [id |-> id,
                   wallet_balance |-> data[r].remainingBalance,
                   total_investment |-> data[r].newTotalInvestment,
                   monthly_yield |-> Decimal2(data[r].newMonthlyYield)]
       IN  /\ ~LockedByOther(r, << "dashboard", id >>)
           /\ IF inTx[r]
              THEN /\ txLocks' = [txLocks EXCEPT ![r] = @ \cup {<< "dashboard", id >>}]
                   /\ txDashboard' = [txDashboard EXCEPT ![r] = Append(@, row)]
                   /\ UNCHANGED << tblDashboard, applied >>
              ELSE /\ tblDashboard' = WithWrites(tblDashboard, << row >>)
                   /\ applied' = [applied EXCEPT ![r].dashboard = TRUE]
                   /\ UNCHANGED << txLocks, txDashboard >>
    /\ pc' = [pc EXCEPT ![r] = "COMMIT"]
    /\ UNCHANGED << start, bootVars, issued, released, tblAssets, txAssets, inTx, localVars, body, client, err,
                    res >>

\* Finally when the handler has no finally block
Finally_Missing(r) == UNCHANGED << client, released >>

\* finally: client.release(), on the way out of the try and of the catch block
Finally(r) ==
    /\ client' = [client EXCEPT ![r] = FALSE]
    /\ released' = [released EXCEPT ![r] = @ + 1]

\* client.query('COMMIT'), res.json({success: true, ...}), finally client.release()
Commit(r) ==
    /\ pc[r] = "COMMIT"
    /\ tblAssets' = WithWrites(tblAssets, txAssets[r])
    /\ tblDashboard' = WithWrites(tblDashboard, txDashboard[r])
    /\ applied' = [applied EXCEPT ![r] =
            [assets |-> @.assets \/ txAssets[r] # << >>,
             dashboard |-> @.dashboard \/ txDashboard[r] # << >>]]
    /\ txLocks' = [txLocks EXCEPT ![r] = {}]
    /\ txAssets' = [txAssets EXCEPT ![r] = << >>]
    /\ txDashboard' = [txDashboard EXCEPT ![r] = << >>]
    /\ inTx' = [inTx EXCEPT ![r] = FALSE]
    /\ res' = [res EXCEPT ![r] = [status |-> SuccessStatus, error |-> "", data |-> data[r]]]
    /\ Finally(r)
    /\ pc' = [pc EXCEPT ![r] = "done"]
    /\ LeaveTry(r)
    /\ UNCHANGED << start, bootVars, issued, body, err >>

\* A query between BEGIN and COMMIT (both included) fails in the store: the
\* await throws into the catch block, which sends ROLLBACK.
QueryFails(r) ==
    /\ pc[r] \in {"BEGIN", "SELECT assets", "SELECT dashboard", "UPDATE assets",
                  "UPDATE dashboard", "COMMIT"}
    /\ Throw(r, StoreErrorMsg)
    /\ UNCHANGED << start, bootVars, storeVars, txVars, body, client, res, issued, released,
                    applied >>

\* catch: client.query('ROLLBACK'), res.status(400).json({error: err.message}),
\* finally client.release()
Rollback(r) ==
    /\ pc[r] = "ROLLBACK"
    /\ txLocks' = [txLocks EXCEPT ![r] = {}]
    /\ txAssets' = [txAssets EXCEPT ![r] = << >>]
    /\ txDashboard' = [txDashboard EXCEPT ![r] = << >>]
    /\ inTx' = [inTx EXCEPT ![r] = FALSE]
    /\ res' = [res EXCEPT ![r] = [status |-> CatchStatus, error |-> err[r], data |-> NoData]]
    /\ Finally(r)
    /\ err' = [err EXCEPT ![r] = ""]
    /\ pc' = [pc EXCEPT ![r] = "done"]
    /\ UNCHANGED << start, bootVars, storeVars, localVars, body, issued, applied >>

\* The ROLLBACK itself fails (the connection is lost, so the server ends the
\* transaction): the catch block throws the ROLLBACK's error in place of the
\* one it caught, finally releases the client, the handler's promise rejects
\* and no response is sent.
RollbackFails(r) ==
    /\ pc[r] = "ROLLBACK"
    /\ txLocks' = [txLocks EXCEPT ![r] = {}]
    /\ txAssets' = [txAssets EXCEPT ![r] = << >>]
    /\ txDashboard' = [txDashboard EXCEPT ![r] = << >>]
    /\ inTx' = [inTx EXCEPT ![r] = FALSE]
    /\ Finally(r)
    /\ err' = [err EXCEPT ![r] = StoreErrorMsg]
    /\ pc' = [pc EXCEPT ![r] = "rejected"]
    /\ UNCHANGED << start, bootVars, storeVars, localVars, body, res, issued, applied >>

Next ==
    \E r \in Reqs :
        \/ Receive(r)
        \/ ConnectFails(r)
        \/ Begin(r)
        \/ SelectAssets(r)
        \/ SelectDashboard(r)
        \/ UpdateAssets(r)
        \/ UpdateDashboard(r)
        \/ Commit(r)
        \/ QueryFails(r)
        \/ Rollback(r)
        \/ RollbackFails(r)

Spec == Init /\ [][Next]_vars

(***************************************************************************)
(* initDB(): the schema and seed initialization a server start runs.  Each *)
(* pool.query is a statement of its own (autocommit).  Several runs model  *)
(* several server starts against one store, one after the other or         *)
(* overlapping.                                                            *)
(***************************************************************************)
BootStarts == {"no database"} \cup Starts

schema0 == IF start = "no database" THEN "no database" ELSE "tables"

Running(b) == initDB[b].pc \notin {"idle", "done"}

\* the run is over: the locals of seedData and initDB are gone
Over(run, failed) ==
    [Run("done") EXCEPT !.failed = failed, !.concurrent = run.concurrent]

\* IsEmpty when seedData inserts without looking at the count
IsEmpty_Unchecked(check) == TRUE

\* parseInt(check.rows[0].count) === 0
IsEmpty(check) == check = 0

\* a server starts and calls initDB(); runs are numbered in the order they start
StartInitDB(b) ==
    /\ initDB[b].pc = "idle"
    /\ \A o \in Boots : o < b => initDB[o].pc # "idle"
    /\ initDB' = [initDB EXCEPT ![b] =
            [Run("ensureDatabaseExists") EXCEPT
                !.concurrent = \E o \in Boots \ {b} : Running(o)]]
    /\ UNCHANGED << start, schema, storeVars, investVars >>

\* ensureDatabaseExists: CREATE DATABASE onblock unless pg_database lists it
EnsureDatabaseExists(b) ==
    /\ initDB[b].pc = "ensureDatabaseExists"
    /\ schema' = IF schema = "no database" THEN "no tables" ELSE schema
    /\ initDB' = [initDB EXCEPT ![b].pc = "createTables"]
    /\ UNCHANGED << start, storeVars, investVars >>

\* ensureDatabaseExists: connecting or a query fails, the catch block logs the
\* error and initDB goes on
EnsureDatabaseFails(b) ==
    /\ initDB[b].pc = "ensureDatabaseExists"
    /\ initDB' = [initDB EXCEPT ![b].pc = "createTables", ![b].failed = TRUE]
    /\ UNCHANGED << start, schema, storeVars, investVars >>

\* pool.query(createTablesQuery): CREATE TABLE IF NOT EXISTS for both tables;
\* without the database the pool cannot connect and initDB catches the error
CreateTables(b) ==
    /\ initDB[b].pc = "createTables"
    /\ IF schema = "no database"
       THEN /\ initDB' = [initDB EXCEPT ![b] = Over(@, TRUE)]
            /\ UNCHANGED schema
       ELSE /\ schema' = "tables"
            /\ initDB' = [initDB EXCEPT ![b].pc = "COUNT dashboard"]
    /\ UNCHANGED << start, storeVars, investVars >>

\* pool.query(createTablesQuery) fails: initDB catches, seedData is not called
CreateTablesFails(b) ==
    /\ initDB[b].pc = "createTables"
    /\ initDB' = [initDB EXCEPT ![b] = Over(@, TRUE)]
    /\ UNCHANGED << start, schema, storeVars, investVars >>

\* seedData: SELECT COUNT(*) FROM dashboard and the test of the count
CountDashboard(b) ==
    /\ initDB[b].pc = "COUNT dashboard"
    /\ LET count == Len(tblDashboard) IN
        initDB' = [initDB EXCEPT
            ![b].dashboardCheck = count,
            ![b].pc = IF IsEmpty(count) THEN "INSERT dashboard" ELSE "COUNT assets"]
    /\ UNCHANGED << start, schema, storeVars, investVars >>

\* seedData: INSERT INTO dashboard ... VALUES (15000.00, 5200.00, 435.50)
InsertDashboard(b) ==
    /\ initDB[b].pc = "INSERT dashboard"
    /\ tblDashboard' =
            Append(tblDashboard, [SeedDashboard EXCEPT !.id = Len(tblDashboard) + 1])
    /\ initDB' = [initDB EXCEPT ![b].pc = "COUNT assets"]
    /\ UNCHANGED << start, schema, tblAssets, investVars >>

\* seedData: SELECT COUNT(*) FROM assets and the test of the count; a run
\* that finds rows is over
CountAssets(b) ==
    /\ initDB[b].pc = "COUNT assets"
    /\ LET count == Len(tblAssets) IN
        initDB' = [initDB EXCEPT ![b] =
            IF IsEmpty(count)
            THEN [@ EXCEPT !.assetsCheck = count, !.pc = "INSERT assets", !.i = 1]
            ELSE Over(@, @.failed)]
    /\ UNCHANGED << start, schema, storeVars, investVars >>

\* seedData: one turn of the loop over dummyAssets, INSERT INTO assets; after
\* the last row the run is over
InsertAsset(b) ==
    /\ initDB[b].pc = "INSERT assets"
    /\ LET i == initDB[b].i IN
        /\ tblAssets' = Append(tblAssets, [dummyAssets[i] EXCEPT !.id = Len(tblAssets) + 1])
        /\ initDB' = [initDB EXCEPT ![b] =
                IF i < Len(dummyAssets) THEN [@ EXCEPT !.i = i + 1] ELSE Over(@, @.failed)]
    /\ UNCHANGED << start, schema, tblDashboard, investVars >>

\* seedData: a query fails, the catch block logs the error and the run is over
SeedFails(b) ==
    /\ initDB[b].pc \in {"COUNT dashboard", "INSERT dashboard", "COUNT assets",
                         "INSERT assets"}
    /\ initDB' = [initDB EXCEPT ![b] = Over(@, TRUE)]
    /\ UNCHANGED << start, schema, storeVars, investVars >>

\* the store the first server start finds: no database yet, or the tables with
\* rows left by earlier runs and invests
BootInit ==
    /\ start \in BootStarts
    /\ schema = schema0
    /\ tblAssets = IF start \in Starts THEN tblAssets0 ELSE << >>
    /\ tblDashboard = IF start \in Starts THEN tblDashboard0 ELSE << >>
    /\ initDB = [b \in Boots |-> Run("idle")]
    /\ NoRequests

BootNext ==
    \E b \in Boots :
        \/ StartInitDB(b)
        \/ EnsureDatabaseExists(b)
        \/ EnsureDatabaseFails(b)
        \/ CreateTables(b)
        \/ CreateTablesFails(b)
        \/ CountDashboard(b)
        \/ InsertDashboard(b)
        \/ CountAssets(b)
        \/ InsertAsset(b)
        \/ SeedFails(b)

SpecBoot == BootInit /\ [][BootNext]_vars

(***************************************************************************)
(* Properties.                                                             *)
(***************************************************************************)
Finished(r) == pc[r] \in {"done", "rejected"}
Succeeded(r) == pc[r] = "done" /\ res[r].status = SuccessStatus
Moves(r) == pc'[r] # pc[r]
Untouched(r) ==
    /\ txAssets[r] = << >> /\ txDashboard[r] = << >> /\ txLocks[r] = {}
    /\ ~applied[r].assets /\ ~applied[r].dashboard

\* C1: two concurrent invests of 6 tokens each against an asset with
\* tokensAvailable = 10 (and no store failure) end, under every interleaving,
\* in exactly one success and one 'Not enough tokens available' failure.
C1_ExactlyOneOfTwoSucceeds ==
    ( /\ tblAssets0[1].tokens_available = 10
      /\ \A r \in {1, 2} : /\ body[r] = Body(1, Number(12))
                           /\ pc[r] = "done"
                           /\ res[r].error # StoreErrorMsg
      /\ \A r \in Reqs \ {1, 2} : pc[r] = "idle" )
    => \E r \in {1, 2} :
          /\ res[r].status = SuccessStatus
          /\ res[3 - r].status = CatchStatus
          /\ res[3 - r].error = NotEnoughTokensMsg

\* C2: in every committed state of the store every Asset row has
\* tokensAvailable >= 0.
C2_TokensAvailableNonNegative ==
    \A i \in DOMAIN tblAssets : tblAssets[i].tokens_available >= 0

\* C3: in every committed state of the store the Dashboard row has
\* walletBalance >= 0.
C3_WalletBalanceNonNegative ==
    \A i \in DOMAIN tblDashboard : tblDashboard[i].wallet_balance >= 0

\* C3 witness: two invests have both succeeded although together they cost more
\* than the wallet held at the start.
C3_Witness ==
    \E r, q \in Reqs :
        /\ r # q /\ Succeeded(r) /\ Succeeded(q)
        /\ res[r].data.spent + res[q].data.spent > tblDashboard0[1].wallet_balance
        /\ tblDashboard[1].wallet_balance < tblDashboard0[1].wallet_balance

\* C4: the invest transaction is all-or-nothing: in every committed state, for
\* each request either both its Asset decrement and its Dashboard update are in
\* the committed rows or neither is, and they are there only for a request that
\* has not failed, whichever store operation fails between BEGIN and COMMIT.
C4_AllOrNothing ==
    \A r \in Reqs :
        /\ applied[r].assets = applied[r].dashboard
        /\ (pc[r] \in {"ROLLBACK", "rejected"} \/ (pc[r] = "done" /\ ~Succeeded(r)))
              => ~applied[r].assets /\ ~applied[r].dashboard
        /\ Succeeded(r) => applied[r].assets /\ applied[r].dashboard

\* C4 witness: a store operation has failed after the Asset UPDATE and before the
\* Dashboard UPDATE, the handler is about to roll back.
C4_Witness ==
    \E r \in Reqs :
        /\ pc[r] = "ROLLBACK" /\ err[r] = StoreErrorMsg
        /\ txAssets[r] # << >> /\ txDashboard[r] = << >>

\* tokensToBuy as a number of tokens, for a numeric tokensToBuy
Tokens(r) == body[r].tokensToBuy.twice \div 2
PositiveInteger(v) == v.kind = "number" /\ v.twice > 0 /\ v.twice % 2 = 0
WantsMoreThan(r, tokens_available) ==
    body[r].tokensToBuy.kind = "number" /\ body[r].tokensToBuy.twice > 2 * tokens_available
CostsMoreThan(r, wallet_balance) ==
    /\ body[r].tokensToBuy.kind = "number"
    /\ tblAssets[body[r].assetId].price_per_token * body[r].tokensToBuy.twice
          > 2 * wallet_balance

\* C5: an invest that fails a business precondition (assetId not in the store,
\* tokensToBuy greater than the asset's tokensAvailable, totalCost greater than
\* walletBalance) throws the matching message, is answered with 400 carrying
\* it, and none of its steps changes an Asset row or the Dashboard row or
\* leaves a write or a lock in the store.
C5_BusinessFailureChangesNothing ==
    [][\A r \in Reqs :
        /\ (pc[r] = "SELECT assets" /\ Moves(r) /\ err'[r] # StoreErrorMsg)
              => /\ body[r].assetId \notin DOMAIN tblAssets
                    => pc'[r] = "ROLLBACK" /\ err'[r] = NotFoundMsg
                 /\ ( /\ body[r].assetId \in DOMAIN tblAssets
                      /\ WantsMoreThan(r, tblAssets[body[r].assetId].tokens_available) )
                    => pc'[r] = "ROLLBACK" /\ err'[r] = NotEnoughTokensMsg
        /\ ( /\ pc[r] = "SELECT dashboard" /\ Moves(r) /\ err'[r] # StoreErrorMsg
             /\ tblDashboard # << >>
             /\ CostsMoreThan(r, tblDashboard[1].wallet_balance) )
              => pc'[r] = "ROLLBACK" /\ err'[r] = InsufficientBalanceMsg
        /\ (err'[r] \in BusinessMsgs) => Untouched(r)'
        /\ (Moves(r) /\ (err[r] \in BusinessMsgs \/ err'[r] \in BusinessMsgs))
              => UNCHANGED << tblAssets, tblDashboard >>
        /\ (pc[r] = "ROLLBACK" /\ err[r] \in BusinessMsgs /\ pc'[r] = "done")
              => /\ res'[r].status = 400 /\ res'[r].error = err[r]
                 /\ Untouched(r)'
    ]_vars

\* C5 witness: a request was refused for lack of tokens and answered 400 after
\* another request's purchase was committed.
C5_Witness ==
    \E r, q \in Reqs :
        /\ pc[r] = "done" /\ res[r].status = 400 /\ res[r].error = NotEnoughTokensMsg
        /\ Succeeded(q)

\* C6: for every successful invest, with totalCost = pricePerToken * tokensToBuy
\* of the target asset, the reported and the persisted totalInvestment are the
\* totalInvestment of the Dashboard row the invest loaded plus totalCost, and
\* the reported and the persisted walletBalance (remainingBalance) are that
\* row's walletBalance minus totalCost.
C6_InvestArithmetic ==
    [][\A r \in Reqs :
        (pc[r] = "COMMIT" /\ pc'[r] = "done") =>
            LET cost == tblAssets[body[r].assetId].price_per_token * Tokens(r)
                old == dashboard[r][1]
                new == tblDashboard'[old.id]
            IN  /\ res'[r].status = 200
                /\ res'[r].data.spent = cost
                /\ res'[r].data.newTotalInvestment = old.total_investment + cost
                /\ res'[r].data.remainingBalance = old.wallet_balance - cost
                /\ new.total_investment = old.total_investment + cost
                /\ new.wallet_balance = old.wallet_balance - cost
    ]_vars

\* C6 witness: an invest has succeeded, its reported balance is the seeded balance
\* less what it spent, and that balance is the committed one.
C6_Witness ==
    \E r \in Reqs :
        /\ Succeeded(r) /\ res[r].data.spent > 0
        /\ res[r].data.remainingBalance = SeedWalletBalance - res[r].data.spent
        /\ tblDashboard[1].wallet_balance = res[r].data.remainingBalance
        /\ tblDashboard[1].total_investment = SeedTotalInvestment + res[r].data.spent

\* C7: a successful invest reports the monthlyYield of the Dashboard row it
\* loaded plus (totalCost * apy / 100) / 12 of the target asset and persists
\* that value rounded to the cent; from Dashboard {15000, 5200, 435.50} and
\* Asset {pricePerToken 50, apy 8.5, tokensAvailable 1000}, tokensToBuy = 10
\* gives totalCost 500, remainingBalance 14500, newTotalInvestment 5700,
\* newMonthlyYield 435.50 + 3.5417 reported and 439.04 persisted, and
\* tokensAvailable 990.
C7_MonthlyYield ==
    [][\A r \in Reqs :
        (pc[r] = "COMMIT" /\ pc'[r] = "done") =>
            LET a == tblAssets[body[r].assetId]
                cost == a.price_per_token * Tokens(r)
                old == dashboard[r][1]
                new == tblDashboard'[old.id]
                y == res'[r].data.newMonthlyYield
                \* twice the distance, in 1/YieldDen cents, between the persisted
                \* value and the exact one
                off2 == 2 * ((new.monthly_yield - old.monthly_yield) * YieldDen
                                - cost * a.apy)
            IN  /\ y.cents = old.monthly_yield
                /\ y.frac = cost * a.apy
                /\ off2 <= YieldDen /\ -off2 <= YieldDen
                /\ ( /\ old = SeedDashboard
                     /\ a = dummyAssets[1]
                     /\ body[r].tokensToBuy = Number(20) )
                   => /\ res'[r].data.spent = 50000
                      /\ res'[r].data.remainingBalance = 1450000
                      /\ res'[r].data.newTotalInvestment = 570000
                      /\ y.frac \div (YieldDen \div 100) = 35416
                      /\ new.monthly_yield = 43904
                      /\ tblAssets'[1].tokens_available = 990
    ]_vars

\* C7 witness: the scenario has run: 10 tokens of the seeded asset 1 bought from
\* the seeded Dashboard.
C7_Witness ==
    \E r \in Reqs :
        /\ body[r] = Body(1, Number(20)) /\ Succeeded(r)
        /\ res[r].data.remainingBalance = 1450000
        /\ tblDashboard[1].monthly_yield = 43904
        /\ tblAssets[1].tokens_available = 990

\* C8: an invest with assetId missing, tokensToBuy missing, or tokensToBuy zero
\* or negative is answered 400 'Valid assetId and tokensToBuy are required',
\* never asks the pool for a connection or the store for anything, and
\* changes nothing in the store.
C8_ValidationError ==
    \A r \in Reqs :
        ( /\ pc[r] # "idle"
          /\ \/ body[r].assetId = 0
             \/ body[r].tokensToBuy.kind = "undefined"
             \/ (body[r].tokensToBuy.kind = "number" /\ body[r].tokensToBuy.twice <= 0) )
        => /\ pc[r] = "done"
           /\ res[r].status = 400 /\ res[r].error = ValidationMsg
           /\ ~issued[r] /\ ~client[r] /\ ~inTx[r] /\ released[r] = 0
           /\ Untouched(r)

\* C8 witness: requests with a negative tokensToBuy and with no assetId have been
\* answered.
C8_Witness ==
    \E r, q \in Reqs :
        /\ pc[r] = "done" /\ body[r] = Body(1, Number(-2)) /\ res[r].status = 400
        /\ pc[q] = "done" /\ body[q].assetId = 0 /\ res[q].status = 400

\* C9: every invest whose tokensToBuy is not a positive integer (1.5, a
\* non-numeric value) is rejected as a client error before any store access: no
\* connection acquired, no BEGIN, no SELECT.
C9_NonIntegerRejectedBeforeStore ==
    \A r \in Reqs :
        (pc[r] # "idle" /\ ~PositiveInteger(body[r].tokensToBuy))
        => /\ ~issued[r] /\ ~client[r]
           /\ pc[r] = "done" /\ res[r].status \in 400..499

\* C10: for POST /invest a business-rule failure is answered 400 with the failure
\* message, an unexpected store failure during the transaction is answered 5xx.
C10_StoreFailureIsServerError ==
    \A r \in Reqs :
        pc[r] = "done" =>
            /\ res[r].error \in BusinessMsgs => res[r].status = 400
            /\ res[r].error = StoreErrorMsg => res[r].status \in 500..599

\* C11: the connection an invest acquired is released exactly once on every
\* exit path (success, business failure, store error, failing ROLLBACK): it is
\* released only in the step that ends the handler, after COMMIT on success and
\* after ROLLBACK was sent on failure, and no handler ends holding it.
C11_ReleasedExactlyOnce ==
    [][\A r \in Reqs :
          /\ released'[r] \in {released[r], released[r] + 1}
          /\ (released'[r] # released[r]) <=> (client[r] /\ ~client'[r])
          /\ (released'[r] # released[r]) =>
                /\ pc[r] \in {"COMMIT", "ROLLBACK"} /\ Finished(r)'
                /\ res'[r].status # SuccessStatus => pc[r] = "ROLLBACK"
          /\ client'[r] => released'[r] = 0 /\ ~Finished(r)'
          /\ (Finished(r)' /\ client[r]) => released'[r] = 1
          /\ Finished(r) => released'[r] = released[r] /\ ~client'[r]]_vars

\* C11 witness: the ROLLBACK of a failed invest has itself failed, and the
\* handler has ended with its connection released once.
C11_Witness ==
    \E r \in Reqs :
        /\ pc[r] = "rejected" /\ err[r] = StoreErrorMsg
        /\ issued[r] /\ ~client[r] /\ released[r] = 1

\* the runs of initDB() that have started
Started == {b \in Boots : initDB[b].pc # "idle"}

\* every run that started is over, and they ran one after the other
RanInSequence ==
    \A b \in Started : initDB[b].pc = "done" /\ ~initDB[b].concurrent

\* the store held no row when the first server started
EmptyAtStart == start = "no database"

\* C12: bootstrap is idempotent and non-overwriting: from an empty store, schema
\* and seed initialization run twice (or more), one run after the other and
\* without a store error, leaves exactly the one seed Dashboard row and the
\* four seed Asset rows; no step of a run changes an existing row, and a run
\* inserts into a table only if its count found that table empty.
C12_BootstrapIdempotent ==
    [][/\ \A i \in DOMAIN tblDashboard :
            i \in DOMAIN tblDashboard' /\ tblDashboard'[i] = tblDashboard[i]
       /\ \A i \in DOMAIN tblAssets :
            i \in DOMAIN tblAssets' /\ tblAssets'[i] = tblAssets[i]
       /\ \A b \in Boots :
            initDB'[b] # initDB[b] =>
                /\ tblDashboard' # tblDashboard => initDB[b].dashboardCheck = 0
                /\ tblAssets' # tblAssets => initDB[b].assetsCheck = 0
       /\ ( /\ EmptyAtStart'
            /\ Cardinality(Started') >= 2
            /\ RanInSequence'
            /\ \A b \in Started' : ~initDB'[b].failed )
          => /\ tblDashboard' = << SeedDashboard >>
             /\ tblAssets' = dummyAssets]_vars

\* C12 witness: two runs, one after the other and without error, are over; the
\* second found both tables seeded by the first.
C12_Witness ==
    /\ EmptyAtStart
    /\ \A b \in {1, 2} :
          initDB[b].pc = "done" /\ ~initDB[b].failed /\ ~initDB[b].concurrent
    /\ Len(tblDashboard) = 1 /\ Len(tblAssets) = 4

\* C13: a successful invest decrements the target Asset's tokensAvailable by
\* exactly tokensToBuy and leaves every other Asset row and every other field
\* of the target row (name, location, apy, pricePerToken) unchanged: the
\* commit of the invest changes table assets in that one field only.
C13_OnlyTargetTokensChange ==
    [][\A r \in Reqs :
          (pc[r] = "COMMIT" /\ Succeeded(r)') =>
              /\ DOMAIN tblAssets' = DOMAIN tblAssets
              /\ \A i \in DOMAIN tblAssets :
                    tblAssets'[i] =
                        IF i = body[r].assetId
                        THEN [tblAssets[i] EXCEPT !.tokens_available = @ - Tokens(r)]
                        ELSE tblAssets[i]]_vars

\* C13 witness: an invest in asset 2 has succeeded after another invest changed
\* asset 1; asset 2 is down by the tokens bought, assets 3 and 4 are as seeded.
C13_Witness ==
    \E r, q \in Reqs :
        /\ Succeeded(r) /\ body[r].assetId = 2
        /\ Succeeded(q) /\ body[q].assetId = 1
        /\ tblAssets[2] = [tblAssets0[2] EXCEPT !.tokens_available = @ - Tokens(r)]
        /\ tblAssets[1].tokens_available < tblAssets0[1].tokens_available
        /\ tblAssets[3] = tblAssets0[3] /\ tblAssets[4] = tblAssets0[4]

\* C14: the business checks are evaluated in the order NotFound,
\* InsufficientInventory, InsufficientFunds: 'Asset not found' and 'Not enough
\* tokens available' are thrown only on the asset read, 'Insufficient wallet
\* balance' only on the later dashboard read, by a request whose asset was found
\* with enough tokens; a request exceeding both tokensAvailable and
\* walletBalance fails with 'Not enough tokens available'; and no UPDATE is
\* issued or buffered before all three checks have passed.
C14_ChecksInOrder ==
    [][\A r \in Reqs :
        /\ (err'[r] \in {NotFoundMsg, NotEnoughTokensMsg} /\ err'[r] # err[r])
              => pc[r] = "SELECT assets" /\ dashboard[r] = << >>
        /\ (err'[r] = InsufficientBalanceMsg /\ err'[r] # err[r])
              => /\ pc[r] = "SELECT dashboard"
                 /\ asset[r] # << >>
                 /\ ~WantsMoreThan(r, asset[r][1].tokens_available)
        /\ ( /\ pc[r] = "SELECT assets" /\ Moves(r) /\ err'[r] # StoreErrorMsg
             /\ body[r].assetId \in DOMAIN tblAssets
             /\ WantsMoreThan(r, tblAssets[body[r].assetId].tokens_available)
             /\ tblDashboard # << >>
             /\ CostsMoreThan(r, tblDashboard[1].wallet_balance) )
              => /\ pc'[r] = "ROLLBACK" /\ err'[r] = NotEnoughTokensMsg
                 /\ Untouched(r)'
        /\ pc'[r] = "UPDATE assets"
              => /\ pc[r] \in {"SELECT dashboard", "UPDATE assets"}
                 /\ asset'[r] # << >>
                 /\ ~WantsMoreThan(r, asset'[r][1].tokens_available)
                 /\ dashboard'[r] # << >>
                 /\ ~CostsMoreThan(r, dashboard'[r][1].wallet_balance)
                 /\ Untouched(r)'
        /\ (txAssets'[r] # txAssets[r] /\ txAssets'[r] # << >>) => pc[r] = "UPDATE assets"
        /\ (txDashboard'[r] # txDashboard[r] /\ txDashboard'[r] # << >>)
              => pc[r] = "UPDATE dashboard"
    ]_vars

\* C14 witness: a request for more tokens than the asset has, costing more than
\* the wallet holds, stands rejected with 'Not enough tokens available'.
C14_Witness ==
    \E r \in Reqs :
        /\ pc[r] = "ROLLBACK" /\ err[r] = NotEnoughTokensMsg
        /\ WantsMoreThan(r, tblAssets[body[r].assetId].tokens_available)
        /\ tblDashboard # << >>
        /\ CostsMoreThan(r, tblDashboard[1].wallet_balance)

\* the sum of f over the elements of the finite set S
RECURSIVE SumOver(_, _)
SumOver(S, f) ==
    IF S = {} THEN 0
    ELSE LET x == CHOOSE x \in S : TRUE IN f[x] + SumOver(S \ {x}, f)

\* the sum of totalCost over the invests answered with success
SpentBySuccessful ==
    SumOver({r \in Reqs : Succeeded(r)}, [r \in Reqs |-> res[r].data.spent])

\* the sum over the assets of pricePerToken * (initial tokensAvailable - current)
ValueOfTokensSold ==
    SumOver(DOMAIN tblAssets,
            [i \in DOMAIN tblAssets |->
                tblAssets[i].price_per_token
                    * (tblAssets0[i].tokens_available - tblAssets[i].tokens_available)])

\* no invest is under way
NoneInFlight == \A r \in Reqs : pc[r] = "idle" \/ Finished(r)

\* C15: no lost update on the Dashboard: whenever no invest is under way,
\* whatever the interleaving of those that completed, walletBalance is down
\* from its initial value by exactly the sum of totalCost over the successful
\* invests, which is the value of the tokens sold, and totalInvestment is up by
\* the same amount.
C15_NoLostUpdate ==
    (NoneInFlight /\ tblDashboard # << >>) =>
        /\ tblDashboard0[1].wallet_balance - tblDashboard[1].wallet_balance
              = SpentBySuccessful
        /\ SpentBySuccessful = ValueOfTokensSold
        /\ tblDashboard[1].total_investment - tblDashboard0[1].total_investment
              = SpentBySuccessful

\* C16: conservation of funds: in every committed state the Dashboard row's
\* walletBalance + totalInvestment is what it was initially; an invest moves
\* totalCost from the one to the other.
C16_FundsConserved ==
    \A i \in DOMAIN tblDashboard :
        tblDashboard[i].wallet_balance + tblDashboard[i].total_investment
            = tblDashboard0[i].wallet_balance + tblDashboard0[i].total_investment

\* C16 witness: two invests have succeeded, the second overwriting the first
\* one's Dashboard update, and the sum is still the initial one.
C16_Witness ==
    \E r, q \in Reqs :
        /\ r # q /\ Succeeded(r) /\ Succeeded(q)
        /\ tblDashboard0[1].wallet_balance - tblDashboard[1].wallet_balance
              < res[r].data.spent + res[q].data.spent
        /\ tblDashboard[1].wallet_balance < tblDashboard0[1].wallet_balance
        /\ tblDashboard[1].wallet_balance + tblDashboard[1].total_investment
              = tblDashboard0[1].wallet_balance + tblDashboard0[1].total_investment

\* C17: every invest request gets exactly one HTTP response, 400 or 200, on
\* every path: once its handler has ended (validation failure, business
\* failure, success, no connection from the pool, a store error in any
\* statement, COMMIT and ROLLBACK included) the handler has sent a response.
C17_AlwaysAnswered ==
    \A r \in Reqs :
        Finished(r) => res[r].status \in {ValidationStatus, CatchStatus, SuccessStatus}

\* the run of initDB() that started last
LastRun == CHOOSE b \in Started : \A o \in Started : o <= b

\* C18: after any sequence of bootstrap runs from an empty store, in which
\* earlier runs may have failed at any store operation (for instance after
\* inserting only some of the four assets), a later run that completes without
\* error leaves exactly one Dashboard row and four Asset rows.
C18_CleanRunCompletesSeed ==
    ( /\ EmptyAtStart
      /\ Started # {}
      /\ RanInSequence
      /\ ~initDB[LastRun].failed )
    => Len(tblDashboard) = 1 /\ Len(tblAssets) = Len(dummyAssets)

\* C19: the Dashboard is a singleton in every reachable state: table dashboard
\* never holds more than one row and table assets never more than the four
\* seed rows, also when bootstrap runs of several server processes against one
\* store interleave their count and insert steps.
C19_DashboardSingleton ==
    Len(tblDashboard) <= 1 /\ Len(tblAssets) <= Len(dummyAssets)

====
